---- MODULE Spec2Model ----
(***************************************************************************)
(* patch_session (agents_api/models/session/patch_session.py): the         *)
(* compilation of a sparse PatchSessionRequest into three datalog          *)
(* statements and their execution, as one transaction, against the         *)
(* time-travelling `sessions` relation of the store.                       *)
(***************************************************************************)
EXTENDS Integers, Sequences, FiniteSets, TLC

VARIABLES
    sessions,   \* the stored relation: a set of rows, every version retained
    now,        \* the store's clock at the last write; 'ASSERT' stamps a later time
    call,       \* arguments of the last patch_session call
    pre,        \* the relation as it was when the last call started
    compiled,   \* (queries, params) returned by the last patch_session call
    outcome,    \* what running them gave
    txn         \* per concurrent caller: the transaction its call runs in

vars == <<sessions, now, call, pre, compiled, outcome, txn>>

(***************************************************************************)
(* Bounds and input domains                                                *)
(***************************************************************************)
MaxVersions    == 3          \* rows in the relation at which Spec stops calling
MaxSeqVersions == 5          \* the same for SpecSeq, whose calls are fewer and runs longer

UNSET       == "UNSET"       \* pydantic: the field was never set
NULL        == "NULL"        \* Python None
UNCOERCIBLE == "UNCOERCIBLE" \* a value the column type of the store rejects

EmptyMap == [k \in {} |-> 0]
Map1(k, v) == [x \in {k} |-> v]

Developers   == {"d1", "d2"}           \* rows of the developers relation
DeveloperIds == Developers \cup {"d0"}  \* ids a caller may pass; d0 is not stored
SessionIds   == {"s0", "s1"}            \* ids a caller of Spec passes; s0 is not stored

\* PatchSessionRequest instances: each field unset, None or a value.
MetaUnset == [state |-> "unset", value |-> EmptyMap]
MetaNull  == [state |-> "null", value |-> EmptyMap]
MetaValue(m) == [state |-> "value", value |-> m]

MetaPayloads ==
    {MetaUnset, MetaNull, MetaValue(EmptyMap), MetaValue(Map1("a", 2)),
     MetaValue(Map1("b", 2))}

Requests ==
    [situation : {UNSET, NULL, "x", "y", UNCOERCIBLE},
     summary   : {UNSET, "y"},
     metadata  : MetaPayloads]

\* The calls of SpecSeq: both owners, both stored sessions, a few payloads.
SeqDeveloperIds == Developers
SeqSessionIds   == {"s1", "s2"}
SeqRequests ==
    {[situation |-> UNSET, summary |-> UNSET, metadata |-> MetaUnset],
     [situation |-> "y", summary |-> UNSET, metadata |-> MetaUnset],
     [situation |-> "x", summary |-> NULL, metadata |-> MetaValue(Map1("a", 2))],
     [situation |-> UNSET, summary |-> "y", metadata |-> MetaValue(Map1("b", 1))],
     [situation |-> UNCOERCIBLE, summary |-> "y", metadata |-> MetaNull],
     [situation |-> "x", summary |-> UNSET, metadata |-> MetaNull],
     [situation |-> UNSET, summary |-> "x", metadata |-> MetaValue(EmptyMap)]}

\* Concurrent callers and what they send, all for session s1.
Procs == {"p1", "p2"}

ConcSessionIds == {"s1"}

ConcDeveloperIds == {"d1", "d2"}

ConcRequests ==
    {[situation |-> "y", summary |-> UNSET, metadata |-> MetaUnset],
     [situation |-> UNSET, summary |-> "y", metadata |-> MetaUnset],
     [situation |-> UNSET, summary |-> "x", metadata |-> MetaValue(Map1("b", 2))]}

(***************************************************************************)
(* The sessions relation                                                   *)
(***************************************************************************)
sessions_columns ==
    {"developer_id", "session_id", "updated_at",
     "situation", "summary", "created_at", "metadata"}

key_columns == {"developer_id", "session_id", "updated_at"}

\* The key of a row without its validity: the entity the row is a version of.
Entity(r) == [c \in {"developer_id", "session_id"} |-> r[c]]

SameKey(r, q) == Entity(r) = Entity(q)

\* Rows valid at "END": the unsuperseded version of each entity.
OpenRows(rel) ==
    {r \in rel : \A q \in rel : SameKey(r, q) => q.updated_at <= r.updated_at}

\* :put replaces the row with the same full key (validity included).
Put(rel, rows) ==
    {r \in rel : \A n \in rows : ~(SameKey(r, n) /\ r.updated_at = n.updated_at)}
        \cup rows

\* A column of a stored row; a column the row was written without reads null.
Val(r, c) == IF c \in DOMAIN r THEN r[c] ELSE NULL

RECURSIVE MaxStamp(_)
MaxStamp(rel) ==
    IF rel = {} THEN 0
    ELSE LET r == CHOOSE x \in rel : TRUE
             m == MaxStamp(rel \ {r})
         IN  IF r.updated_at > m THEN r.updated_at ELSE m

InitSessions ==
    {[developer_id |-> "d1", session_id |-> "s1", updated_at |-> 1,
      situation |-> "x", summary |-> "x", created_at |-> 1,
      metadata |-> Map1("a", 1)],
     [developer_id |-> "d2", session_id |-> "s2", updated_at |-> 2,
      situation |-> "x", summary |-> NULL, created_at |-> 2,
      metadata |-> EmptyMap]}

(***************************************************************************)
(* patch_session: the compilation                                          *)
(***************************************************************************)
_fields_without_created_at == <<"situation", "summary", "session_id", "developer_id">>

_fields == <<"situation", "summary", "created_at", "session_id", "developer_id">>

Range(s) == {s[i] : i \in DOMAIN s}

\* Field order of the request model, which model_dump keeps.
model_fields == <<"situation", "summary", "metadata">>

\* data.model_dump(exclude_unset=True): the fields that were set, None included.
IsSet(data, k) ==
    IF k = "metadata" THEN data.metadata.state # "unset" ELSE data[k] # UNSET

update_data_keys(data) == SelectSeq(model_fields, LAMBDA k : IsSet(data, k))

\* metadata = update_data.pop("metadata", {}) or {}
metadata_param(data) ==
    IF data.metadata.state = "value" THEN data.metadata.value ELSE EmptyMap

\* update_data once metadata is popped.
popped_keys(data) == SelectSeq(update_data_keys(data), LAMBDA k : k # "metadata")

mutate_keys_with_none(data) == popped_keys(data)

\* {k: v for k, v in update_data.items() if v is not None}
mutate_keys(data) == SelectSeq(popped_keys(data), LAMBDA k : data[k] # NULL)

\* [k for k, v in update_data.items() if v is not None]
not_none_keys(data) == SelectSeq(popped_keys(data), LAMBDA k : data[k] # NULL)

\* ",".join(cols): a string as the sequence of its pieces.
RECURSIVE JoinCols(_)
JoinCols(cols) ==
    IF cols = <<>> THEN <<>>
    ELSE IF Len(cols) = 1 THEN <<cols[1]>>
    ELSE <<cols[1], ",">> \o JoinCols(Tail(cols))

\* cozo_process_mutate_data(d): (",".join(d.keys()), [list(d.values())])
cozo_process_mutate_data(data, keys) ==
    [cols |-> JoinCols(keys), vals |-> <<[i \in 1..Len(keys) |-> data[keys[i]]]>>]

session_update_cols(data) == cozo_process_mutate_data(data, mutate_keys(data)).cols
session_update_vals(data) == cozo_process_mutate_data(data, mutate_keys(data)).vals

\* str.split(","): one piece more than there are separators, so the empty
\* string gives one empty piece.
FirstComma(s) ==
    IF \E i \in DOMAIN s : s[i] = ","
    THEN CHOOSE i \in DOMAIN s : s[i] = "," /\ \A j \in 1..(i - 1) : s[j] # ","
    ELSE 0

Piece(s) == IF s = <<>> THEN "" ELSE s[1]

RECURSIVE SplitComma(_)
SplitComma(s) ==
    LET i == FirstComma(s)
    IN  IF i = 0 THEN <<Piece(s)>>
        ELSE <<Piece(SubSeq(s, 1, i - 1))>> \o SplitComma(SubSeq(s, i + 1, Len(s)))

session_update_cols_lst(data) == SplitComma(session_update_cols(data))

all_fields_lst_supplied_only(data) == Range(session_update_cols_lst(data))

all_fields_lst(data) == Range(session_update_cols_lst(data)) \cup Range(_fields)

rest_fields_all(data) == all_fields_lst(data)

rest_fields(data) == all_fields_lst(data) \ Range(not_none_keys(data))

\* The statement of lines 90-108, by its column lists: the input relation's
\* header, the rule head, the columns read from *sessions{...} and the
\* columns of the :put.
update_query(data) ==
    [kind  |-> "update",
     input |-> session_update_cols(data),
     head  |-> all_fields_lst(data) \cup {"metadata", "updated_at"},
     read  |-> rest_fields(data) \cup {"metadata"},
     put   |-> all_fields_lst(data) \cup {"metadata", "updated_at"}]

verify_developer_id_query(developer_id) ==
    [kind |-> "verify_developer_id", developer_id |-> developer_id]

verify_developer_owns_resource_query(developer_id, resource, session_id) ==
    [kind |-> "verify_developer_owns_resource", developer_id |-> developer_id,
     resource |-> resource, session_id |-> session_id]

queries(session_id, developer_id, data) ==
    <<verify_developer_id_query(developer_id),
      verify_developer_owns_resource_query(developer_id, "sessions", session_id),
      update_query(data)>>

patch_session(session_id, developer_id, data) ==
    [queries |-> queries(session_id, developer_id, data),
     params  |-> [session_update_vals |-> session_update_vals(data),
                  session_id   |-> session_id,
                  developer_id |-> developer_id,
                  metadata     |-> metadata_param(data)]]

(***************************************************************************)
(* The store: running the statements as one transaction                    *)
(***************************************************************************)
\* concat(md, $metadata) on two JSON objects: the keys of both, the right
\* operand's value where both have the key.
concat(l, r) ==
    [k \in (DOMAIN l) \cup (DOMAIN r) |-> IF k \in DOMAIN r THEN r[k] ELSE l[k]]

merged_metadata_stored_wins(md, metadata) == concat(metadata, md)

merged_metadata_replaced(md, metadata) == metadata

\* metadata = concat(md, $metadata)
merged_metadata(md, metadata) == concat(md, metadata)

updated_at_value_kept(row, t) == row.updated_at

updated_at_value_created(row, t) == row.created_at

\* updated_at = 'ASSERT': valid from the time of the commit.
updated_at_value(row, t) == t

\* A column list with an empty name does not parse.
Parses(q) ==
    q.kind = "update" => "" \notin (q.head \cup q.read \cup q.put)

\* input[cols] <- $session_update_vals: the columns bound by the input row.
InputCols(q) == SelectSeq(q.input, LAMBDA c : c # ",")

\* The bindings of input[...] and ids[session_id, developer_id].
Bound(q, params) ==
    LET cols == InputCols(q)
        row  == params.session_update_vals[1]
    IN  [c \in Range(cols) \cup {"session_id", "developer_id"} |->
            IF c \in Range(cols)
            THEN row[CHOOSE i \in DOMAIN cols : cols[i] = c]
            ELSE params[c]]

\* The input row fits its header, every head variable is bound by the body,
\* every column read exists and the :put names the key.
Safe(q, params) ==
    /\ Len(InputCols(q)) = Len(params.session_update_vals[1])
    /\ q.read \subseteq sessions_columns
    /\ key_columns \subseteq q.put
    /\ q.head \subseteq (DOMAIN Bound(q, params)) \cup q.read \cup {"metadata", "updated_at"}

\* Open rows that unify with the bindings on the columns read.
Matching(q, params, rel) ==
    LET b == Bound(q, params)
    IN  {r \in OpenRows(rel) :
            \A c \in (q.read \ {"metadata"}) \cap DOMAIN b :
                c \in DOMAIN r /\ r[c] = b[c]}

\* The row the rule derives from one stored row.
Derived(q, params, r, t) ==
    LET b == Bound(q, params)
    IN  [c \in q.put |->
            IF c = "metadata" THEN merged_metadata(r.metadata, params.metadata)
            ELSE IF c = "updated_at" THEN updated_at_value(r, t)
            ELSE IF c \in DOMAIN b THEN b[c]
            ELSE Val(r, c)]

Coercible(row) ==
    \A c \in (DOMAIN row) \cap {"situation", "summary"} : row[c] # UNCOERCIBLE

\* A store whose ownership statement looks the session up without the developer.
Exec_owner_check_by_session(q, params, rel, t) ==
    IF q.kind = "verify_developer_id"
    THEN [ok |-> q.developer_id \in Developers, rel |-> rel, inserted |-> {}]
    ELSE IF q.kind = "verify_developer_owns_resource"
    THEN [ok |-> \E r \in OpenRows(rel) : r.session_id = q.session_id,
          rel |-> rel, inserted |-> {}]
    ELSE IF ~Safe(q, params)
    THEN [ok |-> FALSE, rel |-> rel, inserted |-> {}]
    ELSE LET rows == {Derived(q, params, r, t) : r \in Matching(q, params, rel)}
         IN  IF \A n \in rows : Coercible(n)
             THEN [ok |-> TRUE, rel |-> Put(rel, rows), inserted |-> rows]
             ELSE [ok |-> FALSE, rel |-> rel, inserted |-> {}]

\* One statement against the working relation: [ok, rel, inserted].
Exec(q, params, rel, t) ==
    IF q.kind = "verify_developer_id"
    THEN [ok |-> q.developer_id \in Developers, rel |-> rel, inserted |-> {}]
    ELSE IF q.kind = "verify_developer_owns_resource"
    THEN [ok |-> \E r \in OpenRows(rel) :
                    /\ r.developer_id = q.developer_id
                    /\ r.session_id = q.session_id,
          rel |-> rel, inserted |-> {}]
    ELSE IF ~Safe(q, params)
    THEN [ok |-> FALSE, rel |-> rel, inserted |-> {}]
    ELSE LET rows == {Derived(q, params, r, t) : r \in Matching(q, params, rel)}
         IN  IF \A n \in rows : Coercible(n)
             THEN [ok |-> TRUE, rel |-> Put(rel, rows), inserted |-> rows]
             ELSE [ok |-> FALSE, rel |-> rel, inserted |-> {}]

\* The statements in order on a working copy; the first failure ends the run.
RECURSIVE RunFrom(_, _, _, _, _)
RunFrom(qs, i, params, work, t) ==
    IF i > Len(qs)
    THEN [failed_at |-> "none", rel |-> work, inserted |-> {}]
    ELSE LET e == Exec(qs[i], params, work, t)
         IN  IF ~e.ok
             THEN [failed_at |-> qs[i].kind, rel |-> work, inserted |-> {}]
             ELSE IF i = Len(qs)
             THEN [failed_at |-> "none", rel |-> e.rel, inserted |-> e.inserted]
             ELSE RunFrom(qs, i + 1, params, e.rel, t)

\* A store that puts the derived rows before it coerces them and keeps what a
\* failed script wrote.
cozo_query_no_rollback(qs, params, rel, t) ==
    IF \E i \in DOMAIN qs : ~Parses(qs[i])
    THEN [failed_at |-> "parse", exception |-> "QueryException",
          rel |-> rel, inserted |-> {}]
    ELSE LET r == RunFrom(qs, 1, params, rel, t)
             q == qs[Len(qs)]
         IN  IF r.failed_at = "none"
             THEN [failed_at |-> "none", exception |-> "none",
                   rel |-> r.rel, inserted |-> r.inserted]
             ELSE [failed_at |-> r.failed_at, exception |-> "QueryException",
                   rel |-> IF r.failed_at = "update" /\ Safe(q, params)
                           THEN Put(rel, {Derived(q, params, x, t) :
                                            x \in Matching(q, params, rel)})
                           ELSE rel,
                   inserted |-> {}]

\* cozo_query: the chained script is parsed whole, then run in one
\* transaction; a failure raises QueryException and commits nothing.
cozo_query(qs, params, rel, t) ==
    IF \E i \in DOMAIN qs : ~Parses(qs[i])
    THEN [failed_at |-> "parse", exception |-> "QueryException",
          rel |-> rel, inserted |-> {}]
    ELSE LET r == RunFrom(qs, 1, params, rel, t)
         IN  IF r.failed_at = "none"
             THEN [failed_at |-> "none", exception |-> "none",
                   rel |-> r.rel, inserted |-> r.inserted]
             ELSE [failed_at |-> r.failed_at, exception |-> "QueryException",
                   rel |-> rel, inserted |-> {}]

\* A transaction that reads the relation as it is when it commits.
txn_reads_current(snapshot, current) == current

\* What the statements of a transaction read: the relation as it was when
\* the transaction started; writes committed since are not seen.
txn_reads(snapshot, current) == snapshot

\* rewrap_exceptions: the three mapped kinds become HTTPException(400).
rewrap_exceptions(exception) ==
    IF exception \in {"QueryException", "ValidationError", "TypeError"}
    THEN "HTTPException400"
    ELSE exception

\* :returning: the rows put, each timestamp as the sequence the store gives.
returning(rows) ==
    {[c \in DOMAIN n |-> IF c = "updated_at" THEN <<n[c]>> ELSE n[c]] : n \in rows}

transform_without_jobs(d) ==
    [k \in ((DOMAIN d) \ {"updated_at"}) \cup {"id", "updated_at"} |->
        IF k \in (DOMAIN d) \ {"updated_at"} THEN d[k]
        ELSE IF k = "id" THEN d.session_id
        ELSE d.updated_at[1]]

\* transform: {"id": d["session_id"], "updated_at": d.pop("updated_at")[0],
\* "jobs": [], **d}; the keys d still has after the pop come last.
transform(d) ==
    [k \in ((DOMAIN d) \ {"updated_at"}) \cup {"id", "updated_at", "jobs"} |->
        IF k \in (DOMAIN d) \ {"updated_at"} THEN d[k]
        ELSE IF k = "id" THEN d.session_id
        ELSE IF k = "updated_at" THEN d.updated_at[1]
        ELSE <<>>]

\* wrap_in_class(ResourceUpdatedResponse, one=True, transform=...,
\* _kind="inserted"): the transformed row, none when the run raised.
wrap_in_class(rows) == {transform(d) : d \in returning(rows)}

(***************************************************************************)
(* The state machine                                                       *)
(***************************************************************************)
NoRequest ==
    [situation |-> UNSET, summary |-> UNSET,
     metadata |-> [state |-> "unset", value |-> EmptyMap]]

NoTxn ==
    [phase |-> "idle", session_id |-> "s0", developer_id |-> "d0",
     data |-> NoRequest, snapshot |-> {}, inserted |-> {}, committed_at |-> 0]

Init ==
    /\ sessions = InitSessions
    /\ now = 2
    /\ call = [session_id |-> "s0", developer_id |-> "d0", data |-> NoRequest]
    /\ pre = InitSessions
    /\ compiled = patch_session("s0", "d0", NoRequest)
    /\ outcome = [failed_at |-> "init", raised |-> "none", inserted |-> {},
                  response |-> {}]
    /\ txn = [p \in Procs |-> NoTxn]

PatchSession(session_id, developer_id, data) ==
    \E c \in {patch_session(session_id, developer_id, data)} :
    \E r \in {cozo_query(c.queries, c.params, sessions, now + 1)} :
        /\ call' = [session_id |-> session_id, developer_id |-> developer_id,
                    data |-> data]
        /\ pre' = sessions
        /\ compiled' = c
        /\ sessions' = r.rel
        /\ now' = MaxStamp(r.rel)
        /\ outcome' = [failed_at |-> r.failed_at,
                       raised |-> rewrap_exceptions(r.exception),
                       inserted |-> r.inserted,
                       response |-> wrap_in_class(r.inserted)]
        /\ UNCHANGED txn

Next ==
    /\ Cardinality(sessions) < MaxVersions
    /\ \E session_id \in SessionIds, developer_id \in DeveloperIds, data \in Requests :
          PatchSession(session_id, developer_id, data)

Spec == Init /\ [][Next]_vars

NextSeq ==
    /\ Cardinality(sessions) < MaxSeqVersions
    /\ \E session_id \in SeqSessionIds, developer_id \in SeqDeveloperIds,
          data \in SeqRequests :
          PatchSession(session_id, developer_id, data)

SpecSeq == Init /\ [][NextSeq]_vars

\* Two callers at once.  A call starts its transaction, which fixes what its
\* statements read, and commits later; the other caller may commit in between.
Begin(p, session_id, developer_id, data) ==
    /\ txn[p].phase = "idle"
    /\ txn' = [txn EXCEPT ![p] =
                  [phase |-> "open", session_id |-> session_id,
                   developer_id |-> developer_id, data |-> data,
                   snapshot |-> sessions, inserted |-> {}, committed_at |-> 0]]
    /\ UNCHANGED <<sessions, now, call, pre, compiled, outcome>>

Commit(p) ==
    /\ txn[p].phase = "open"
    /\ \E c \in {patch_session(txn[p].session_id, txn[p].developer_id, txn[p].data)} :
       \E r \in {cozo_query(c.queries, c.params,
                            txn_reads(txn[p].snapshot, sessions), now + 1)} :
           /\ call' = [session_id |-> txn[p].session_id,
                       developer_id |-> txn[p].developer_id, data |-> txn[p].data]
           /\ pre' = sessions
           /\ compiled' = c
           /\ sessions' = Put(sessions, r.inserted)
           /\ now' = MaxStamp(Put(sessions, r.inserted))
           /\ outcome' = [failed_at |-> r.failed_at,
                          raised |-> rewrap_exceptions(r.exception),
                          inserted |-> r.inserted,
                          response |-> wrap_in_class(r.inserted)]
           /\ txn' = [txn EXCEPT ![p] =
                         [@ EXCEPT !.phase = "done", !.inserted = r.inserted,
                                   !.committed_at =
                                       IF r.inserted = {} THEN 0 ELSE now + 1]]

NextConc ==
    \/ \E p \in Procs, session_id \in ConcSessionIds,
          developer_id \in ConcDeveloperIds, data \in ConcRequests :
          Begin(p, session_id, developer_id, data)
    \/ \E p \in Procs : Commit(p)

SpecConc == Init /\ [][NextConc]_vars

(***************************************************************************)
(* Vocabulary of the properties                                            *)
(***************************************************************************)
Called == outcome.failed_at # "init"

Succeeded == Called /\ outcome.raised = "none" /\ outcome.inserted # {}

Owns(rel, developer_id, session_id) ==
    \E r \in OpenRows(rel) :
        r.developer_id = developer_id /\ r.session_id = session_id

CallerOwns == Owns(pre, call.developer_id, call.session_id)

\* The version of the called session that was open when the call started.
PrevOpen == CHOOSE r \in OpenRows(pre) : r.session_id = call.session_id

ScalarFields == {"situation", "summary"}

\* The fields the payload gives a value other than None.
NonNullSupplied(data) ==
    {k \in ScalarFields : data[k] \notin {UNSET, NULL}}
        \cup (IF data.metadata.state = "value" THEN {"metadata"} ELSE {})

\* The columns of a version apart from its validity.
SchemaFields == sessions_columns \ {"updated_at"}

StoredSessionIds == {r.session_id : r \in InitSessions}

VersionsOf(rel, session_id) == {r \in rel : r.session_id = session_id}

\* The :put statement of the last call.
LastUpdate == compiled.queries[3]

\* The payload with every None replaced by "never set".
Strip(data) ==
    [situation |-> IF data.situation = NULL THEN UNSET ELSE data.situation,
     summary   |-> IF data.summary = NULL THEN UNSET ELSE data.summary,
     metadata  |-> IF data.metadata.state = "null" THEN MetaUnset ELSE data.metadata]

(***************************************************************************)
(* Properties                                                              *)
(***************************************************************************)

\* C1: a call by the owner with the empty payload is not rejected, writes
\* exactly one new version, and that version differs from the version open
\* before only in updated_at.
C1_EmptyPatchTouches ==
    (Called /\ CallerOwns /\ call.data = NoRequest) =>
        /\ outcome.raised = "none"
        /\ Cardinality(sessions \ pre) = 1
        /\ \A n \in sessions \ pre :
              \A c \in SchemaFields : c \in DOMAIN n /\ n[c] = PrevOpen[c]

\* C2: after a successful patch, every schema field the payload does not give
\* a non-null value (created_at, session_id and developer_id among them) has in
\* the new version the value it had in the version open before.
C2_CarriedForward ==
    Succeeded =>
        \A n \in outcome.inserted :
            \A c \in SchemaFields \ NonNullSupplied(call.data) :
                c \in DOMAIN n /\ n[c] = PrevOpen[c]

C2_Witness ==
    /\ Succeeded
    /\ call.data.situation = "y"
    /\ call.data.summary = UNSET
    /\ call.data.metadata = MetaUnset
    /\ \E n \in outcome.inserted :
          /\ n.summary = "x" /\ n.created_at = 1 /\ n.metadata = Map1("a", 1)
          /\ n.situation # PrevOpen.situation

C4_MetadataUnion ==
    Succeeded =>
        \A n \in outcome.inserted :
            LET old   == PrevOpen.metadata
                patch == IF call.data.metadata.state = "value"
                         THEN call.data.metadata.value ELSE EmptyMap
            IN  /\ DOMAIN n.metadata = (DOMAIN old) \cup (DOMAIN patch)
                /\ \A k \in DOMAIN patch : n.metadata[k] = patch[k]
                /\ \A k \in (DOMAIN old) \ (DOMAIN patch) : n.metadata[k] = old[k]
                /\ (old = Map1("a", 1) /\ patch = Map1("b", 2)) =>
                      n.metadata = [k \in {"a", "b"} |-> IF k = "a" THEN 1 ELSE 2]
                /\ (old = Map1("a", 1) /\ patch = Map1("a", 2)) =>
                      n.metadata = Map1("a", 2)

C4_Witness ==
    /\ Succeeded
    /\ PrevOpen.metadata = Map1("a", 1)
    /\ call.data.metadata = MetaValue(Map1("a", 2))
    /\ \E n \in outcome.inserted : n.metadata = Map1("a", 2)

\* C5: a call by a developer who exists but does not own the session fails
\* with NotFound or Forbidden and writes no version.
C5_NonOwnerNotFound ==
    (Called /\ call.developer_id \in Developers /\ ~CallerOwns
        /\ Parses(LastUpdate)) =>
        /\ outcome.raised \in {"HTTPException404", "HTTPException403"}
        /\ sessions = pre

\* C6: a call with a developer_id that does not exist fails with NotFound at
\* the first statement, the statements being the developer check, the
\* ownership check and the mutation in that order.
C6_UnknownDeveloperNotFound ==
    (Called /\ call.developer_id \notin Developers /\ Parses(LastUpdate)) =>
        /\ outcome.raised = "HTTPException404"
        /\ outcome.failed_at = "verify_developer_id"
        /\ [i \in 1..3 |-> compiled.queries[i].kind]
              = <<"verify_developer_id", "verify_developer_owns_resource", "update">>
        /\ sessions = pre

\* C7: when the mutation statement fails after both checks passed, no new
\* version is visible, the version open before is still the one open version,
\* and no state holds a partly written row.
C7_FailedMutationWritesNothing ==
    /\ \A r \in sessions : DOMAIN r = sessions_columns /\ Coercible(r)
    /\ (Called /\ outcome.failed_at = "update") =>
          /\ sessions = pre
          /\ outcome.inserted = {}
          /\ {r \in OpenRows(sessions) : r.session_id = call.session_id} = {PrevOpen}

C7_Witness ==
    /\ Called
    /\ CallerOwns
    /\ call.data.situation = UNCOERCIBLE
    /\ outcome.failed_at = "update"
    /\ sessions = pre

\* C8: a payload with fields set to None compiles to the statements and the
\* parameters of the payload without those fields, and leaves the relation the
\* same; scalar fields and metadata alike.
C8_NullIsAbsent ==
    Called =>
        LET c == patch_session(call.session_id, call.developer_id, Strip(call.data))
            r == cozo_query(c.queries, c.params, pre, MaxStamp(pre) + 1)
        IN  /\ compiled = c
            /\ sessions = r.rel
            /\ outcome.inserted = r.inserted
            /\ outcome.failed_at = r.failed_at

C8_Witness ==
    /\ Succeeded
    /\ call.data.situation = NULL
    /\ call.data.metadata = MetaNull
    /\ call.data.summary = "y"
    /\ \E n \in outcome.inserted : n.situation = PrevOpen.situation

\* C9: in every state each stored session id has exactly one open version, and
\* a successful patch adds the new open version while the version it
\* supersedes stays in the relation.
C9_OneOpenVersionRetained ==
    /\ \A sid \in StoredSessionIds :
          Cardinality(VersionsOf(OpenRows(sessions), sid)) = 1
    /\ \A r \in sessions : r.session_id \in StoredSessionIds
    /\ InitSessions \subseteq sessions
    /\ pre \subseteq sessions
    /\ Succeeded =>
          /\ Cardinality(sessions) = Cardinality(pre) + 1
          /\ outcome.inserted \subseteq OpenRows(sessions)
          /\ PrevOpen \in sessions \ OpenRows(sessions)

C9_Witness ==
    /\ Succeeded
    /\ Cardinality(VersionsOf(sessions, "s1")) = 3
    /\ Cardinality(VersionsOf(sessions, "s2")) = 2
    /\ Cardinality(OpenRows(sessions)) = 2

C11_FailureTaxonomy ==
    (Called /\ outcome.failed_at # "none") =>
        /\ outcome.raised \in {"HTTPException400", "HTTPException404", "HTTPException403"}
        /\ outcome.failed_at \in {"parse", "update"} => outcome.raised = "HTTPException400"
        /\ outcome.failed_at \in {"verify_developer_id", "verify_developer_owns_resource"}
              => outcome.raised = "HTTPException404"
        /\ outcome.inserted = {}
        /\ sessions = pre

\* A session id no version is stored under.
AbsentSessionId == "s0"

\* C12: for the same caller and payload, a call on a session stored under
\* another owner ends as the call on a session that is not stored at all: the
\* same error at the same statement, nothing returned, nothing written.
C12_NoExistenceLeak ==
    (Called /\ VersionsOf(pre, call.session_id) # {} /\ ~CallerOwns) =>
        LET c == patch_session(AbsentSessionId, call.developer_id, call.data)
            r == cozo_query(c.queries, c.params, pre, MaxStamp(pre) + 1)
        IN  /\ VersionsOf(pre, AbsentSessionId) = {}
            /\ outcome.raised = rewrap_exceptions(r.exception)
            /\ outcome.failed_at = r.failed_at
            /\ outcome.inserted = r.inserted
            /\ sessions = pre
            /\ r.rel = pre

C12_Witness ==
    /\ Called
    /\ call.developer_id = "d2"
    /\ call.session_id = "s1"
    /\ call.data.situation = "y"
    /\ outcome.failed_at = "verify_developer_owns_resource"
    /\ outcome.raised = "HTTPException400"
    /\ sessions = pre

\* C13: the result of a successful patch has id equal to the session_id of the
\* returned row, updated_at equal to the one element of the sequence the store
\* returned, jobs equal to the empty list, and every other returned column
\* unchanged; a call that raised returns nothing.
C13_ResponseProjection ==
    /\ (Called /\ ~Succeeded) => outcome.response = {}
    /\ Succeeded =>
          /\ Cardinality(outcome.response) = 1
          /\ \A resp \in outcome.response :
                \E d \in returning(outcome.inserted) :
                    /\ DOMAIN resp
                          = ((DOMAIN d) \ {"updated_at"}) \cup {"id", "updated_at", "jobs"}
                    /\ resp.id = d.session_id
                    /\ Len(d.updated_at) = 1
                    /\ resp.updated_at = d.updated_at[1]
                    /\ resp.jobs = <<>>
                    /\ \A c \in (DOMAIN d) \ {"updated_at"} : resp[c] = d[c]

C13_Witness ==
    /\ Succeeded
    /\ call.data.situation = "y"
    /\ \E resp \in outcome.response :
          /\ resp.id = "s1"
          /\ resp.updated_at = 3
          /\ resp.jobs = <<>>
          /\ resp.situation = "y"
          /\ resp.developer_id = "d1"

\* C15: for every payload the columns overwritten (the input relation's), the
\* columns carried forward (rest_fields) and the merged column (metadata) are
\* pairwise disjoint and together are the schema field set.
C15_FieldPartition ==
    Called =>
        LET overwritten == Range(InputCols(LastUpdate))
            carried     == LastUpdate.read \ {"metadata"}
            merged      == {"metadata"}
        IN  /\ overwritten \cap carried = {}
            /\ overwritten \cap merged = {}
            /\ carried \cap merged = {}
            /\ overwritten \cup carried \cup merged = SchemaFields

\* C18: a call by the owner whose payload supplies metadata and nothing else
\* succeeds and writes a version with the merged metadata and every other
\* field but updated_at as it was.
C18_MetadataOnlyPatch ==
    (Called /\ CallerOwns /\ NonNullSupplied(call.data) = {"metadata"}) =>
        /\ outcome.raised = "none"
        /\ Cardinality(sessions \ pre) = 1
        /\ \A n \in sessions \ pre :
              /\ n.metadata = concat(PrevOpen.metadata, call.data.metadata.value)
              /\ \A c \in SchemaFields \ {"metadata"} :
                    c \in DOMAIN n /\ n[c] = PrevOpen[c]

\* C16: over any sequence of successful patches the metadata keys of a session
\* never shrink: a later version of a session has every metadata key of an
\* earlier one, and the version a patch writes has every key of the version
\* it replaces, whether the payload's metadata is unset, null, empty or not.
C16_MetadataKeysNeverShrink ==
    /\ \A r \in sessions : \A q \in sessions :
          (SameKey(r, q) /\ r.updated_at <= q.updated_at) =>
              DOMAIN r.metadata \subseteq DOMAIN q.metadata
    /\ Succeeded =>
          \A n \in outcome.inserted :
              DOMAIN PrevOpen.metadata \subseteq DOMAIN n.metadata

C16_Witness ==
    /\ Succeeded
    /\ call.session_id = "s1"
    /\ call.data.metadata = MetaValue(EmptyMap)
    /\ DOMAIN PrevOpen.metadata = {"a", "b"}
    /\ \E n \in outcome.inserted : DOMAIN n.metadata = {"a", "b"}
    /\ \E r \in VersionsOf(pre, "s1") :
          /\ r.updated_at < PrevOpen.updated_at
          /\ \E p \in VersionsOf(pre, "s1") :
                /\ p.updated_at > r.updated_at
                /\ p.metadata = r.metadata
                /\ DOMAIN p.metadata # {}

\* C17: updated_at is no column of the input relation, no parameter and not
\* read from the stored row; the statement derives and puts it, the version
\* written carries the store's time of the commit, and that time is not
\* before the updated_at of any earlier version of the session.
C17_UpdatedAtStoreAssigned ==
    /\ Called =>
          /\ "updated_at" \notin Range(InputCols(LastUpdate))
          /\ "updated_at" \notin LastUpdate.read
          /\ "updated_at" \notin DOMAIN compiled.params
          /\ "updated_at" \notin Range(model_fields)
          /\ "updated_at" \in LastUpdate.head \cap LastUpdate.put
    /\ Succeeded =>
          \A n \in outcome.inserted :
              /\ n.updated_at = now
              /\ \A r \in VersionsOf(pre, n.session_id) :
                    r.updated_at <= n.updated_at
    /\ \A r \in sessions : r.updated_at <= now

C17_Witness ==
    /\ Succeeded
    /\ Cardinality(VersionsOf(pre, call.session_id)) >= 3
    /\ \E n \in outcome.inserted :
          \A r \in VersionsOf(pre, call.session_id) : r.updated_at < n.updated_at

\* The transaction of p committed a version.
Committed(p) == txn[p].phase = "done" /\ txn[p].inserted # {}

\* p committed and no other caller committed after it.
LastWriter(p) ==
    Committed(p) /\ \A q \in Procs : txn[q].committed_at <= txn[p].committed_at

\* The version of its session that was open when the transaction of p started.
SnapshotOpen(p) ==
    CHOOSE r \in OpenRows(txn[p].snapshot) : r.session_id = txn[p].session_id

\* The open version of session s1.
OpenS1 == CHOOSE r \in OpenRows(sessions) : r.session_id = "s1"

\* C14: with two patches of one session running concurrently the last writer
\* to commit wins: the open version is the version the last committer derived
\* from its own payload and from the version that was open when its
\* transaction started, whatever the other patch committed in between.  The
\* lost update is the reachable state C14_Witness.
C14_LastWriterWins ==
    \A p \in Procs :
        LastWriter(p) =>
            \A n \in txn[p].inserted :
                LET data == txn[p].data
                    old  == SnapshotOpen(p)
                    patch == IF data.metadata.state = "value"
                             THEN data.metadata.value ELSE EmptyMap
                IN  /\ n \in OpenRows(sessions)
                    /\ \A c \in NonNullSupplied(data) \cap ScalarFields :
                          c \in DOMAIN n /\ n[c] = data[c]
                    /\ \A c \in SchemaFields \ (NonNullSupplied(data) \cup {"metadata"}) :
                          c \in DOMAIN n /\ n[c] = old[c]
                    /\ n.metadata = concat(old.metadata, patch)

\* Both patches succeeded, p1 committed first and set situation, p2 committed
\* last, and the open version has the situation from before p1's patch.
C14_Witness ==
    /\ Committed("p1") /\ Committed("p2")
    /\ txn["p1"].committed_at < txn["p2"].committed_at
    /\ txn["p1"].data.situation = "y"
    /\ \E r \in OpenRows(txn["p1"].snapshot) :
          r.session_id = "s1" /\ r.situation # "y"
    /\ \E v \in sessions : v.session_id = "s1" /\ v.situation = "y"
    /\ OpenS1.situation # "y"
    /\ OpenS1 \in txn["p2"].inserted

====
